---- MODULE Spec2Model ----
(***************************************************************************)
(* A model of utils/glomo.py: the ComponentBlock text form and the         *)
(* ComponentManifest parser of directory.txt manifests; of retry in        *)
(* utils/data_processing.py; and of flush_cdn_cache in                     *)
(* utils/highwinds_cdn.py.                                                 *)
(*                                                                         *)
(* Python str values are TLA+ strings; a character is a string of length   *)
(* one.  Optional values (None or a value) are sequences of length 0 or 1. *)
(***************************************************************************)
EXTENDS Integers, Sequences, FiniteSets, TLC

\* ------------------------------------------------------------------------
\* Python str primitives
\* ------------------------------------------------------------------------

CharAt(s, i) == SubSeq(s, i, i)

Digits == <<"0", "1", "2", "3", "4", "5", "6", "7", "8", "9">>

IsDigit(c) == \E d \in 1..10 : Digits[d] = c

DigitVal(c) == (CHOOSE d \in 1..10 : Digits[d] = c) - 1

\* str.isspace for the characters of the inputs
IsSpace(c) == c \in {" ", "\t", "\n", "\r"}

None == <<>>

Some(v) == <<v>>

startswith(s, p) == Len(s) >= Len(p) /\ SubSeq(s, 1, Len(p)) = p

RECURSIVE SkipSpace(_, _)
\* first index >= i of s that holds no whitespace (Len(s) + 1 when there is none)
SkipSpace(s, i) ==
  IF i <= Len(s) /\ IsSpace(CharAt(s, i)) THEN SkipSpace(s, i + 1) ELSE i

RECURSIVE SkipDigits(_, _)
SkipDigits(s, i) ==
  IF i <= Len(s) /\ IsDigit(CharAt(s, i)) THEN SkipDigits(s, i + 1) ELSE i

RECURSIVE SkipNonSpace(_, _)
SkipNonSpace(s, i) ==
  IF i <= Len(s) /\ ~IsSpace(CharAt(s, i)) THEN SkipNonSpace(s, i + 1) ELSE i

RECURSIVE DigitsToNat(_, _)
\* the value of the decimal digits s, read after the value acc
DigitsToNat(s, acc) ==
  IF s = "" THEN acc
  ELSE DigitsToNat(Tail(s), 10 * acc + DigitVal(CharAt(s, 1)))

RECURSIVE unescape_spaces(_)
\* str(s).replace("\\ ", " ")
unescape_spaces(s) ==
  IF Len(s) < 2 THEN s
  ELSE IF SubSeq(s, 1, 2) = "\\ " THEN " " \o unescape_spaces(SubSeq(s, 3, Len(s)))
  ELSE CharAt(s, 1) \o unescape_spaces(Tail(s))

\* ------------------------------------------------------------------------
\* os.path.join and pathlib.Path on POSIX
\* ------------------------------------------------------------------------

\* os.path.join(a, b)
os_path_join(a, b) ==
  IF startswith(b, "/") THEN b
  ELSE IF a = "" \/ CharAt(a, Len(a)) = "/" THEN a \o b
  ELSE a \o "/" \o b

RECURSIVE PathParts(_, _, _)
\* the components of s from index i on, "" and "." dropped; cur is the
\* component being read
PathParts(s, i, cur) ==
  LET done == IF cur = "" \/ cur = "." THEN <<>> ELSE <<cur>>
  IN IF i > Len(s) THEN done
     ELSE IF CharAt(s, i) = "/" THEN done \o PathParts(s, i + 1, "")
     ELSE PathParts(s, i + 1, cur \o CharAt(s, i))

RECURSIVE JoinParts(_)
JoinParts(parts) ==
  IF parts = <<>> THEN ""
  ELSE IF Len(parts) = 1 THEN parts[1]
  ELSE parts[1] \o "/" \o JoinParts(Tail(parts))

\* str(Path(s)): two paths are equal exactly when these strings are equal
Path(s) ==
  LET root == IF startswith(s, "//") /\ ~startswith(s, "///") THEN "//"
              ELSE IF startswith(s, "/") THEN "/"
              ELSE ""
      body == JoinParts(PathParts(s, 1, ""))
  IN IF root = "" /\ body = "" THEN "." ELSE root \o body

\* Path(a) / b
PathDiv(a, b) == Path(os_path_join(a, b))

\* ------------------------------------------------------------------------
\* The regular expressions of ComponentManifest.from_file.  A field of a
\* pattern is matched at an index of the line and yields the index after it,
\* or 0 when the field does not match there.
\* ------------------------------------------------------------------------

\* [-+]?\d+
ScanInt(s, i) ==
  LET j == IF i <= Len(s) /\ CharAt(s, i) \in {"-", "+"} THEN i + 1 ELSE i
      k == SkipDigits(s, j)
  IN IF k > j THEN k ELSE 0

\* [+-]?(?:[0-9]*[.])?[0-9]+
ScanFloat(s, i) ==
  LET j  == IF i <= Len(s) /\ CharAt(s, i) \in {"-", "+"} THEN i + 1 ELSE i
      d1 == SkipDigits(s, j)
      d2 == IF d1 <= Len(s) /\ CharAt(s, d1) = "." THEN SkipDigits(s, d1 + 1) ELSE 0
  IN IF d2 > d1 + 1 THEN d2
     ELSE IF d1 > j THEN d1
     ELSE 0

\* [0-9]+
ScanDigits(s, i) ==
  LET k == SkipDigits(s, i) IN IF k > i THEN k ELSE 0

\* \S+
ScanToken(s, i) ==
  LET k == SkipNonSpace(s, i) IN IF k > i THEN k ELSE 0

RECURSIVE SkipEscaped(_, _)
\* (?:[^\\\s]|\\.)*  : a backslash takes the character after it along
SkipEscaped(s, i) ==
  IF i > Len(s) THEN i
  ELSE IF CharAt(s, i) = "\\"
       THEN IF i + 1 <= Len(s) /\ CharAt(s, i + 1) # "\n" THEN SkipEscaped(s, i + 2) ELSE i
  ELSE IF IsSpace(CharAt(s, i)) THEN i
  ELSE SkipEscaped(s, i + 1)

\* ((?:[^\\\s]|\\.)+)
ScanEscaped(s, i) ==
  LET k == SkipEscaped(s, i) IN IF k > i THEN k ELSE 0

ScanField(kind, s, i) ==
  CASE kind = "int"     -> ScanInt(s, i)
    [] kind = "float"   -> ScanFloat(s, i)
    [] kind = "digits"  -> ScanDigits(s, i)
    [] kind = "token"   -> ScanToken(s, i)
    [] kind = "escaped" -> ScanEscaped(s, i)

NoMatch == [ok |-> FALSE, groups |-> <<>>, next |-> 0]

RECURSIVE MatchFields(_, _, _, _, _)
\* (\s+ field) for each of kinds[k..], from index i of s; a field that is
\* followed by \s+ ends where the whitespace starts, so the greedy match of
\* each field is the only one
MatchFields(s, i, kinds, k, groups) ==
  IF k > Len(kinds) THEN [ok |-> TRUE, groups |-> groups, next |-> i]
  ELSE LET j == SkipSpace(s, i)
           e == IF j > i THEN ScanField(kinds[k], s, j) ELSE 0
       IN IF e = 0 THEN NoMatch
          ELSE MatchFields(s, e, kinds, k + 1, Append(groups, SubSeq(s, j, e - 1)))

\* the pattern  ^keyword (\s+ field)*  with no anchor at its end
MatchRecord(keyword, kinds, s) ==
  IF startswith(s, keyword) THEN MatchFields(s, Len(keyword) + 1, kinds, 1, <<>>)
  ELSE NoMatch

\* \s+(.+) from index i: the rest of the line; when only whitespace is left,
\* \s+ gives its last character back to (.+)
MatchRest(s, m) ==
  LET i == m.next
      j == SkipSpace(s, i)
  IN IF ~m.ok \/ j = i THEN NoMatch
     ELSE IF j <= Len(s)
          THEN [ok |-> TRUE, groups |-> Append(m.groups, SubSeq(s, j, Len(s))), next |-> Len(s) + 1]
     ELSE IF j - i >= 2
          THEN [ok |-> TRUE, groups |-> Append(m.groups, CharAt(s, Len(s))), next |-> Len(s) + 1]
     ELSE NoMatch

FourInts == <<"int", "int", "int", "int">>

\* r'^MANIFEST_VERSION\s+([0-9]+)\s*$'
re_MANIFEST_VERSION(s) ==
  LET m == MatchRecord("MANIFEST_VERSION", <<"digits">>, s)
  IN IF m.ok /\ SkipSpace(s, m.next) = Len(s) + 1 THEN m ELSE NoMatch

\* r'^INSTALL_PATH_PREFIX\s+(.*)'
re_INSTALL_PATH_PREFIX(s) ==
  LET i == Len("INSTALL_PATH_PREFIX") + 1
      j == SkipSpace(s, i)
  IN IF startswith(s, "INSTALL_PATH_PREFIX") /\ j > i
     THEN [ok |-> TRUE, groups |-> <<SubSeq(s, j, Len(s))>>, next |-> Len(s) + 1]
     ELSE NoMatch

\* r'^RAWFILE\s+(int)\s+(int)\s+(int)\s+(int)\s+(\S+)\s+(float)\s+(\S+)\s+(path)\s+(path)'
re_RAWFILE(s) ==
  MatchRecord("RAWFILE", FourInts \o <<"token", "float", "token", "escaped", "escaped">>, s)

\* r'^ZIP\s+(float)\s+(\S+)\s+(path)\s+(path)'
re_ZIP(s) ==
  MatchRecord("ZIP", <<"float", "token", "escaped", "escaped">>, s)

\* r'^ZIPFILE\s+(int)\s+(int)\s+(int)\s+(int)\s+(\S+)\s+(float)\s+(\S+)\s+(.+)'
re_ZIPFILE(s) ==
  MatchRest(s, MatchRecord("ZIPFILE", FourInts \o <<"token", "float", "token">>, s))

\* r'^FILE_HISTORY\s+([0-9]+)\s+(.+)'
re_FILE_HISTORY(s) ==
  MatchRest(s, MatchRecord("FILE_HISTORY", <<"digits">>, s))

\* the lines the manifests are made of
ManifestLines ==
  {"MANIFEST_VERSION 7",
   "MANIFEST_VERSION 9",
   "INSTALL_PATH_PREFIX pre",
   "INSTALL_PATH_PREFIX ",
   "INSTALL_PATH_PREFIX",
   "RAWFILE 0 0 0 0 t 1.0 h1 a\\ b a\\ b",
   "ZIP 1.0 zh1 z.zip z.zip",
   "ZIP 1.0 zh2 a\\ b a\\ b",
   "ZIP 1.0 zh3 z.zip z.zip",
   "ZIPFILE 0 0 0 0 t 2.0 h3 a\\ b",
   "FILE_HISTORY 3 a",
   "FILE_HISTORY 4 a",
   "FILE_HISTORY x a",
   "COMMENT hello",
   "",
   "ZIP broken"}

\* the six patterns on every line of ManifestLines, matched once: the lines
\* of a manifest are drawn from ManifestLines
PatternMemo ==
  [l \in ManifestLines |->
     [MANIFEST_VERSION    |-> re_MANIFEST_VERSION(l),
      INSTALL_PATH_PREFIX |-> re_INSTALL_PATH_PREFIX(l),
      RAWFILE             |-> re_RAWFILE(l),
      ZIP                 |-> re_ZIP(l),
      ZIPFILE             |-> re_ZIPFILE(l),
      FILE_HISTORY        |-> re_FILE_HISTORY(l)]] @@ <<>>

\* re.match(pattern, str(line)) for each pattern
match_MANIFEST_VERSION(s) ==
  PatternMemo[s].MANIFEST_VERSION

match_INSTALL_PATH_PREFIX(s) ==
  PatternMemo[s].INSTALL_PATH_PREFIX

match_RAWFILE(s) ==
  PatternMemo[s].RAWFILE

match_ZIP(s) ==
  PatternMemo[s].ZIP

match_ZIPFILE(s) ==
  PatternMemo[s].ZIPFILE

match_FILE_HISTORY(s) ==
  PatternMemo[s].FILE_HISTORY

\* ------------------------------------------------------------------------
\* ComponentManifest.from_file: the locals of the parse and one iteration of
\* its loop over the lines of the manifest
\* ------------------------------------------------------------------------

\* ManifestEntry(hash, in_zip): in_zip is None or Some(path of the ZIP)
ManifestEntry(hash, in_zip) == [hash |-> hash, in_zip |-> in_zip]

\* the locals of from_file before the first line; raised is "" until an
\* assertion or the RuntimeError ends the parse
from_file_locals ==
  [prev_manifest_version |-> -1,
   install_path_prefix   |-> "",
   entries               |-> <<>>,
   history               |-> <<>>,
   zips                  |-> <<>>,
   most_recent_zip       |-> None,
   raised                |-> ""]

\* entries[path] of the defaultdict(list)
EntriesAt(entries, path) ==
  IF path \in DOMAIN entries THEN entries[path] ELSE <<>>

\* d[key] = value
DictSet(d, key, value) == (key :> value) @@ d

Raise(st, what) == [st EXCEPT !.raised = what]

\* the loop is still looking for the version line
VersionPending(st) == st.prev_manifest_version = -1

\* mutant: a RAWFILE line is refused for a path that has any entry
all_in_zip_no_entry(at_path) == at_path = <<>>

\* mutant: only the first entry of the path is looked at
all_in_zip_first_only(at_path) ==
  at_path = <<>> \/ at_path[1].in_zip # None

\* all(entry.in_zip for entry in entries[path])
all_in_zip(at_path) ==
  \A k \in 1..Len(at_path) : at_path[k].in_zip # None

\* mutant: only the latest entry of the path is compared with the ZIP
any_in_this_zip_latest_only(at_path, most_recent_zip) ==
  at_path # <<>> /\ at_path[Len(at_path)].in_zip = most_recent_zip

\* any(mfst_entry.in_zip == most_recent_zip for mfst_entry in entries[path])
any_in_this_zip(at_path, most_recent_zip) ==
  \E k \in 1..Len(at_path) : at_path[k].in_zip = most_recent_zip

\* mutant: the assertion on most_recent_zip is dropped
in_a_zip_unchecked(most_recent_zip) == TRUE

\* the ZIPFILE line is inside a ZIP: the truth value of most_recent_zip
in_a_zip(most_recent_zip) == most_recent_zip # None

\* mutant: the assertion on history is dropped
not_in_history_unchecked(history, path) == TRUE

\* path not in history
not_in_history(history, path) == path \notin DOMAIN history

\* a line the RAWFILE pattern matches
rawfile_line(st, m) ==
  LET path == unescape_spaces(os_path_join(st.install_path_prefix, m.groups[8]))
  IN IF ~all_in_zip(EntriesAt(st.entries, path)) THEN Raise(st, "AssertionError")
     ELSE [st EXCEPT !.entries =
             DictSet(@, path, Append(EntriesAt(@, path), ManifestEntry(m.groups[7], None)))]

\* mutant: a ZIP line records its hash and leaves a most_recent_zip that is
\* set as it is
zip_line_keeps_cursor(st, m) ==
  LET zip == PathDiv(st.install_path_prefix, unescape_spaces(m.groups[3]))
  IN [st EXCEPT !.most_recent_zip = IF @ = None THEN Some(zip) ELSE @,
                !.zips = DictSet(@, zip, m.groups[2])]

\* mutant: a ZIP line starts the dict of hashes afresh
zip_line_fresh_dict(st, m) ==
  LET zip == PathDiv(st.install_path_prefix, unescape_spaces(m.groups[3]))
  IN [st EXCEPT !.most_recent_zip = Some(zip),
                !.zips = (zip :> m.groups[2])]

\* a line the ZIP pattern matches
zip_line(st, m) ==
  LET zip == PathDiv(st.install_path_prefix, unescape_spaces(m.groups[3]))
  IN [st EXCEPT !.most_recent_zip = Some(zip),
                !.zips = DictSet(@, zip, m.groups[2])]

\* a line the ZIPFILE pattern matches
zipfile_line(st, m) ==
  LET path == unescape_spaces(os_path_join(st.install_path_prefix, m.groups[8]))
  IN IF ~in_a_zip(st.most_recent_zip) THEN Raise(st, "AssertionError")
     ELSE IF any_in_this_zip(EntriesAt(st.entries, path), st.most_recent_zip)
          THEN Raise(st, "AssertionError")
     ELSE [st EXCEPT !.entries =
             DictSet(@, path, Append(EntriesAt(@, path),
                                     ManifestEntry(m.groups[7], st.most_recent_zip)))]

\* mutant: a line that no pattern matches is skipped
file_line_lenient(st, line) ==
  IF match_RAWFILE(line).ok THEN rawfile_line(st, match_RAWFILE(line))
  ELSE IF match_ZIP(line).ok THEN zip_line(st, match_ZIP(line))
  ELSE IF match_ZIPFILE(line).ok THEN zipfile_line(st, match_ZIPFILE(line))
  ELSE st

\* a line that starts with ZIP, ZIPFILE or RAWFILE
file_line(st, line) ==
  IF match_RAWFILE(line).ok THEN rawfile_line(st, match_RAWFILE(line))
  ELSE IF match_ZIP(line).ok THEN zip_line(st, match_ZIP(line))
  ELSE IF match_ZIPFILE(line).ok THEN zipfile_line(st, match_ZIPFILE(line))
  ELSE Raise(st, "RuntimeError")

\* a line that starts with FILE_HISTORY
history_line(st, line) ==
  LET m    == match_FILE_HISTORY(line)
      path == m.groups[2]
  IN IF ~m.ok THEN st
     ELSE IF ~not_in_history(st.history, path) THEN Raise(st, "AssertionError")
     ELSE [st EXCEPT !.history = DictSet(@, path, DigitsToNat(m.groups[1], 0))]

\* a line read after the version was found
body_line(st, line) ==
  IF st.install_path_prefix = "" /\ startswith(line, "INSTALL_PATH_PREFIX")
  THEN LET m == match_INSTALL_PATH_PREFIX(line)
       IN IF m.ok THEN [st EXCEPT !.install_path_prefix = unescape_spaces(m.groups[1])]
          ELSE st
  ELSE IF startswith(line, "ZIP") \/ startswith(line, "ZIPFILE") \/ startswith(line, "RAWFILE")
       THEN file_line(st, line)
  ELSE IF startswith(line, "FILE_HISTORY") THEN history_line(st, line)
  ELSE st

\* mutant: a line that is no version line is handled as a line of the body
version_line_ungated(st, line) ==
  LET m == match_MANIFEST_VERSION(line)
  IN IF m.ok THEN [st EXCEPT !.prev_manifest_version = DigitsToNat(m.groups[1], 0)]
     ELSE body_line(st, line)

\* a line read while the version is still -1
version_line(st, line) ==
  LET m == match_MANIFEST_VERSION(line)
  IN IF m.ok THEN [st EXCEPT !.prev_manifest_version = DigitsToNat(m.groups[1], 0)]
     ELSE st

\* mutant: a MANIFEST_VERSION line is read as the version wherever it stands
from_file_line_last_wins(st, line) ==
  IF VersionPending(st) \/ match_MANIFEST_VERSION(line).ok THEN version_line(st, line)
  ELSE body_line(st, line)

\* one iteration of the loop
from_file_line(st, line) ==
  IF VersionPending(st) THEN version_line(st, line) ELSE body_line(st, line)

\* cls(prev_manifest_version, Path(install_path_prefix), entries, history, zips)
ComponentManifest(st) ==
  [version             |-> st.prev_manifest_version,
   install_path_prefix |-> Path(st.install_path_prefix),
   entries             |-> st.entries,
   history             |-> st.history,
   zips                |-> st.zips]

\* the truth value of the locator: None and "" are falsy
Given(manifest_file_path_or_url) ==
  manifest_file_path_or_url # None /\ manifest_file_path_or_url # Some("")

\* mutant: the version is not incremented
next_version_same(out_manifest) ==
  IF out_manifest # None THEN out_manifest[1].version ELSE 1

\* out_manifest.version + 1 if out_manifest else 1
next_version(out_manifest) ==
  IF out_manifest # None THEN out_manifest[1].version + 1 ELSE 1

\* ------------------------------------------------------------------------
\* More of Python's str and int, as ComponentBlock uses them
\* ------------------------------------------------------------------------

RECURSIVE NatToStr(_)
NatToStr(n) ==
  IF n < 10 THEN Digits[n + 1] ELSE NatToStr(n \div 10) \o Digits[(n % 10) + 1]

\* str(n) of an int, as an f-string formats it
IntToStr(n) == IF n < 0 THEN "-" \o NatToStr(-n) ELSE NatToStr(n)

\* the least and the greatest element of a set of integers that is not empty
Min(S) == CHOOSE x \in S : \A y \in S : x <= y

Max(S) == CHOOSE x \in S : \A y \in S : x >= y

\* the first index >= i of s that holds one of chars, Len(s) + 1 when none does
IndexOfAny(s, chars, i) ==
  LET hits == {k \in i..Len(s) : CharAt(s, k) \in chars}
  IN IF hits = {} THEN Len(s) + 1 ELSE Min(hits)

\* s.strip()
strip(s) ==
  LET kept == {k \in 1..Len(s) : ~IsSpace(CharAt(s, k))}
  IN IF kept = {} THEN "" ELSE SubSeq(s, Min(kept), Max(kept))

\* s.rstrip()
rstrip(s) ==
  LET kept == {k \in 1..Len(s) : ~IsSpace(CharAt(s, k))}
  IN IF kept = {} THEN "" ELSE SubSeq(s, 1, Max(kept))

RECURSIVE splitlines_from(_, _)
\* the lines of s from index i on; a line ends at \n, \r or \r\n, and no
\* empty line follows the last break
splitlines_from(s, i) ==
  IF i > Len(s) THEN <<>>
  ELSE LET k    == IndexOfAny(s, {"\n", "\r"}, i)
           next == IF k < Len(s) /\ CharAt(s, k) = "\r" /\ CharAt(s, k + 1) = "\n"
                   THEN k + 2 ELSE k + 1
       IN <<SubSeq(s, i, k - 1)>> \o splitlines_from(s, next)

\* s.splitlines(keepends=False)
splitlines(s) == splitlines_from(s, 1)

RECURSIVE split_from(_, _)
\* the runs of s without whitespace, from index i on
split_from(s, i) ==
  LET starts == {k \in i..Len(s) : ~IsSpace(CharAt(s, k))}
      a      == Min(starts)
      e      == IndexOfAny(s, {" ", "\t", "\n", "\r"}, a)
  IN IF starts = {} THEN <<>>
     ELSE <<SubSeq(s, a, e - 1)>> \o split_from(s, e)

\* s.split()
split(s) == split_from(s, 1)

\* the first index >= i at which sep occurs in s, 0 when there is none
find(s, sep, i) ==
  LET hits == {k \in i..(Len(s) - Len(sep) + 1) : SubSeq(s, k, k + Len(sep) - 1) = sep}
  IN IF hits = {} THEN 0 ELSE Min(hits)

\* mutant: s.split(sep, maxsplit=1)[-1], the whole string when it has no sep
after_token_last(s, sep) ==
  LET i == find(s, sep, 1)
  IN IF i = 0 THEN Some(s) ELSE Some(SubSeq(s, i + Len(sep), Len(s)))

\* s.split(sep, maxsplit=1)[1]: None stands for the IndexError of a
\* string without sep
after_token(s, sep) ==
  LET i == find(s, sep, 1)
  IN IF i = 0 THEN None ELSE Some(SubSeq(s, i + Len(sep), Len(s)))

RECURSIVE DropUnderscores(_)
DropUnderscores(s) ==
  IF s = "" THEN ""
  ELSE IF CharAt(s, 1) = "_" THEN DropUnderscores(Tail(s))
  ELSE CharAt(s, 1) \o DropUnderscores(Tail(s))

\* int(s): None stands for the ValueError of a string that is no integer
\* literal (whitespace around it, a sign, digits with single underscores
\* between them)
int(s) ==
  LET t      == strip(s)
      signed == t # "" /\ CharAt(t, 1) \in {"-", "+"}
      body   == IF signed THEN Tail(t) ELSE t
      valid  == /\ body # ""
                /\ IsDigit(CharAt(body, 1))
                /\ IsDigit(CharAt(body, Len(body)))
                /\ \A k \in 1..Len(body) : IsDigit(CharAt(body, k)) \/ CharAt(body, k) = "_"
                /\ find(body, "__", 1) = 0
      value  == DigitsToNat(DropUnderscores(body), 0)
  IN IF ~valid THEN None
     ELSE IF signed /\ CharAt(t, 1) = "-" THEN Some(-value)
     ELSE Some(value)

\* bool(s) of a str
bool(s) == s # ""

\* ------------------------------------------------------------------------
\* CdnServer and ComponentBlock
\* ------------------------------------------------------------------------

CdnServer == {"MobileSecure", "MobileUnsecured"}

for_component_list(server) ==
  IF server = "MobileSecure" THEN "SERVER_SECURE" ELSE "SERVER_UNSECURE"

from_component_list_id(server_id) ==
  IF server_id = "SERVER_SECURE" THEN "MobileSecure" ELSE "MobileUnsecured"

\* int(self.require_auth)
BoolToInt(flag) == IF flag THEN 1 ELSE 0

\* ComponentBlock.__str__
ComponentBlock_str(self) ==
  "COMPONENT com.laminarresearch.xplane_10." \o self.component_name \o "\n"
  \o for_component_list(self.cdn_subdomain) \o "\n"
  \o self.package_path \o "\n"
  \o "MANIFEST_VERSIONS " \o IntToStr(self.manifest_versions[1]) \o " "
  \o IntToStr(self.manifest_versions[2]) \o "\n"
  \o "REQUIRE_AUTH " \o IntToStr(BoolToInt(self.require_auth)) \o "\n"
  \o "SIM_VERSIONS " \o IntToStr(self.sim_version_low) \o "-"
  \o IntToStr(self.sim_version_high) \o "\n\n"

Raised(what) == [raised |-> what, block |-> <<>>]

\* [int(v) for v in tokens]: None when an int(v) raises
ints(tokens) ==
  IF \E k \in 1..Len(tokens) : int(tokens[k]) = None THEN None
  ELSE Some([k \in 1..Len(tokens) |-> int(tokens[k])[1]])

\* ComponentBlock.from_str: the block, or the exception that ends it
from_str(file_text) ==
  LET lines            == splitlines(strip(file_text))
      sim_versions     == after_token(lines[6], "SIM_VERSIONS ")
      sim_versions_str == split(sim_versions[1])
      package_path     == lines[3]
      component_name   == after_token(lines[1], "com.laminarresearch.xplane_10.")
      versions_text    == after_token(lines[4], "MANIFEST_VERSIONS ")
      manifest_versions == ints(split(strip(versions_text[1])))
      require_auth     == after_token(lines[5], "REQUIRE_AUTH")
  IN IF Len(lines) # 6 THEN Raised("AssertionError")
     ELSE IF sim_versions = None THEN Raised("IndexError")
     ELSE IF ~startswith(package_path, "/") THEN Raised("AssertionError")
     ELSE IF component_name = None THEN Raised("IndexError")
     ELSE IF versions_text = None THEN Raised("IndexError")
     ELSE IF manifest_versions = None THEN Raised("ValueError")
     ELSE IF require_auth = None THEN Raised("IndexError")
     ELSE IF Len(sim_versions_str) < 1 THEN Raised("IndexError")
     ELSE IF int(sim_versions_str[1]) = None THEN Raised("ValueError")
     ELSE IF Len(sim_versions_str) < 2 THEN Raised("IndexError")
     ELSE IF int(sim_versions_str[2]) = None THEN Raised("ValueError")
     ELSE [raised |-> "",
           block  |-> [component_name    |-> component_name[1],
                       cdn_subdomain     |-> from_component_list_id(lines[2]),
                       package_path      |-> package_path,
                       manifest_versions |-> manifest_versions[1],
                       require_auth      |-> bool(strip(require_auth[1])),
                       sim_version_low   |-> int(sim_versions_str[1])[1],
                       sim_version_high  |-> int(sim_versions_str[2])[1]]]

\* ------------------------------------------------------------------------
\* parse_component_list and component_versions
\* ------------------------------------------------------------------------

RECURSIVE split_sep(_, _)
\* s.split(sep): the pieces of s between the occurrences of sep
split_sep(s, sep) ==
  LET i == find(s, sep, 1)
  IN IF i = 0 THEN <<s>>
     ELSE <<SubSeq(s, 1, i - 1)>> \o split_sep(SubSeq(s, i + Len(sep), Len(s)), sep)

component_token == "COMPONENT "

\* mutant: the text after ENDOFLIST is kept
nuked_end_kept(skipped_header) == skipped_header

\* skipped_header.split('ENDOFLIST')[0]
nuked_end(skipped_header) == split_sep(skipped_header, "ENDOFLIST")[1]

\* the blocks of the comprehension: the pieces that are not empty
fragments(text) ==
  SelectSeq(split_sep(text, component_token), LAMBDA piece : piece # "")

\* parse_component_list once the text is read: the blocks, or the exception
\* that ends it (the first from_str that raises)
parse_component_list(component_list) ==
  LET rest    == after_token(component_list, component_token)
      pieces  == fragments(nuked_end(component_token \o rest[1]))
      results == [k \in 1..Len(pieces) |-> from_str(component_token \o pieces[k])]
      failed  == {k \in 1..Len(pieces) : results[k].raised # ""}
  IN IF rest = None THEN [raised |-> "IndexError", blocks |-> <<>>]
     ELSE IF failed # {} THEN [raised |-> results[Min(failed)].raised, blocks |-> <<>>]
     ELSE [raised |-> "", blocks |-> [k \in 1..Len(pieces) |-> results[k].block]]

RECURSIVE dict_of(_, _, _)
\* the dict comprehension from the k-th component on, d built so far
dict_of(components, k, d) ==
  IF k > Len(components) THEN d
  ELSE dict_of(components, k + 1,
               DictSet(d, components[k].component_name, components[k].manifest_versions))

\* mutant: a name that is a key already keeps its value
component_versions_first_wins(components) ==
  [n \in {components[k].component_name : k \in 1..Len(components)} |->
     components[Min({k \in 1..Len(components) : components[k].component_name = n})].manifest_versions]

\* component_versions
component_versions(components) == dict_of(components, 1, <<>>)

\* ------------------------------------------------------------------------
\* component_list_version: the locals of the scan and one iteration of its
\* loop over the lines of the component list
\* ------------------------------------------------------------------------

\* the locals before the first line; returned is None until the return
\* statement runs, raised is "" until an exception ends the scan
version_locals ==
  [next_line_is_version |-> FALSE, returned |-> None, raised |-> ""]

\* mutant: the assertion on next_line_is_version is dropped
scan_line_unasserted(st, line) ==
  IF rstrip(line) = "COMPONENTS" THEN [st EXCEPT !.next_line_is_version = TRUE]
  ELSE IF st.next_line_is_version
       THEN IF int(line) = None THEN Raise(st, "ValueError")
            ELSE [st EXCEPT !.returned = int(line)]
  ELSE st

\* one iteration of the loop
scan_line(st, line) ==
  IF rstrip(line) = "COMPONENTS"
  THEN IF st.next_line_is_version THEN Raise(st, "AssertionError")
       ELSE [st EXCEPT !.next_line_is_version = TRUE]
  ELSE IF st.next_line_is_version
       THEN IF int(line) = None THEN Raise(st, "ValueError")
            ELSE [st EXCEPT !.returned = int(line)]
  ELSE st

\* ------------------------------------------------------------------------
\* retry (data_processing.py): the locals of the call and what one
\* invocation of action does to them
\* ------------------------------------------------------------------------

\* the locals before the first invocation; done is "" while retry runs, then
\* "returned" or "raised", and value what it returned or raised
retry_locals == [attempted |-> 0, slept |-> 0, done |-> "", value |-> None]

\* mutant: the result of an invocation inside the loop is dropped
retry_call_drops_result(st, max_tries, outcome) ==
  IF st.attempted < max_tries
  THEN IF outcome.kind = "return" THEN [st EXCEPT !.attempted = @ + 1]
       ELSE [st EXCEPT !.slept = @ + st.attempted + 1, !.attempted = @ + 1]
  ELSE IF outcome.kind = "return"
       THEN [st EXCEPT !.done = "returned", !.value = Some(outcome.value)]
  ELSE [st EXCEPT !.done = "raised", !.value = Some(outcome.value)]

\* one invocation of action: inside the loop while attempted < max_tries
\* (return action() / except: sleep(attempted + 1)), after it the last
\* return action(), whose exception leaves retry
retry_call(st, max_tries, outcome) ==
  IF outcome.kind = "return"
  THEN [st EXCEPT !.done = "returned", !.value = Some(outcome.value)]
  ELSE IF st.attempted < max_tries
       THEN [st EXCEPT !.slept = @ + st.attempted + 1, !.attempted = @ + 1]
  ELSE [st EXCEPT !.done = "raised", !.value = Some(outcome.value)]

\* ------------------------------------------------------------------------
\* flush_cdn_cache (highwinds_cdn.py).  A float (the progress of a purge) is
\* an integer of thousandths: 0.99 is 990 and 1.0 is 1000.
\* ------------------------------------------------------------------------

\* the seconds a call waits for whatever it purges: `30 + len(...)`
WaitBase == 30

\* the progress from which the loop stops: `ratio_complete < 0.99`
RatioComplete == 990

\* the argument mobile_abs_paths: one str or Path (kind "str", items the one
\* path) or a collection of them (kind "list")
PathArg(kind, items) == [kind |-> kind, items |-> items]

\* `if isinstance(mobile_abs_paths, str) or isinstance(mobile_abs_paths, Path):
\*      mobile_abs_paths = [mobile_abs_paths]`
as_path_list(arg) == IF arg.kind = "str" THEN PathArg("list", arg.items) ELSE arg

\* `all(str(path).startswith('/') for path in mobile_abs_paths)`
all_absolute(arg) == \A i \in 1..Len(arg.items) : startswith(arg.items[i], "/")

\* `waited > 30 + len(mobile_abs_paths)`
timed_out(n, arg) == n > WaitBase + Len(arg.items)

\* ------------------------------------------------------------------------
\* The state
\* ------------------------------------------------------------------------

VARIABLES
  pc,           \* where the call of from_file_with_next_version is
  source,       \* its argument manifest_file_path_or_url: None or Some(locator)
  nread,        \* how many lines of the manifest the loop has read
  line,         \* the line of the latest iteration
  parse,        \* the locals of from_file
  out,          \* what from_file_with_next_version returned: <<out_manifest, next_version>>
  header_seen,  \* history: a line that is a MANIFEST_VERSION record has been read
  lead_record,  \* history: a line that is a record of the body was read before the header
  ref,          \* history: the locals of a parse that is given the lines from the first MANIFEST_VERSION record on
  last_zip,     \* history: the latest ZIP record read after the header, with the prefix it was read under
  zipfile_log,  \* history: for every ZIPFILE record read after the header and after a ZIP record, what it names and the ZIP record before it
  first_version, \* history: the integer of the first MANIFEST_VERSION record read, None before it
  first_prefix, \* history: the decoded path of the first INSTALL_PATH_PREFIX record read after the header, None before it
  file_records, \* history: the RAWFILE, ZIP and ZIPFILE records read after the header that raised nothing
  bpc,          \* where the round trip of a ComponentBlock is
  block,        \* the ComponentBlock
  text,         \* str(block)
  parsed,       \* ComponentBlock.from_str(text)
  vpc,          \* where the call of component_list_version is
  listing,      \* the text of the component list it reads
  vread,        \* how many lines of the text its loop has read
  scan,         \* the locals of component_list_version
  lpc,          \* where the call of parse_component_list is
  document,     \* the text of the component list, on the web and in the local copy
  made_of,      \* history: the header, the block texts and the tail the document was put together from
  reachable,    \* whether the read from the web succeeds (no URLError)
  component_list, \* the text parse_component_list has read
  components,   \* what parse_component_list returned or raised
  versions,     \* component_versions of the blocks returned
  rpc,          \* where the call of retry is
  max_tries,    \* its argument max_tries
  tries,        \* the locals of retry
  invoked,      \* history: the outcome of every invocation of action, in order
  fpc,          \* where the call of flush_cdn_cache is
  cdn_token,    \* the global cdn_token: None or Some(token)
  mobile_abs_paths,   \* its argument of that name, and the list the code rebinds it to
  await_confirmation, \* its argument of that name
  waited,       \* its local of that name
  ratio_complete, \* its local of that name, in thousandths
  polls,        \* history: how many times purge_status_ratio was called
  error         \* the exception that ended the call, "" if none

manifest_vars == <<pc, source, nread, line, parse, out, header_seen, lead_record, ref, last_zip, zipfile_log, first_version, first_prefix, file_records>>

block_vars == <<bpc, block, text, parsed>>

version_vars == <<vpc, listing, vread, scan>>

list_vars == <<lpc, document, made_of, reachable, component_list, components, versions>>

retry_vars == <<rpc, max_tries, tries, invoked>>

flush_vars == <<fpc, cdn_token, mobile_abs_paths, await_confirmation, waited, ratio_complete, polls, error>>

vars == <<manifest_vars, block_vars, version_vars, list_vars, retry_vars, flush_vars>>

\* the manifest parse and the round trip of a block are not running
ManifestIdle ==
  /\ pc = "idle"
  /\ source = None
  /\ nread = 0
  /\ line = ""
  /\ parse = from_file_locals
  /\ out = <<>>
  /\ header_seen = FALSE
  /\ lead_record = FALSE
  /\ ref = from_file_locals
  /\ last_zip = None
  /\ zipfile_log = {}
  /\ first_version = None
  /\ first_prefix = None
  /\ file_records = {}

BlockIdle ==
  /\ bpc = "idle"
  /\ block = <<>>
  /\ text = ""
  /\ parsed = <<>>

\* retry is not called
RetryIdle ==
  /\ rpc = "idle"
  /\ max_tries = 0
  /\ tries = retry_locals
  /\ invoked = <<>>

\* flush_cdn_cache is not called
FlushIdle ==
  /\ fpc = "idle"
  /\ cdn_token = None
  /\ mobile_abs_paths = PathArg("list", <<>>)
  /\ await_confirmation = FALSE
  /\ waited = 0
  /\ ratio_complete = 0
  /\ polls = 0
  /\ error = ""

\* parse_component_list is not called
ListIdle ==
  /\ lpc = "idle"
  /\ document = ""
  /\ made_of = <<>>
  /\ reachable = TRUE
  /\ component_list = ""
  /\ components = <<>>
  /\ versions = <<>>

\* component_list_version is not called
VersionIdle ==
  /\ vpc = "idle"
  /\ listing = ""
  /\ vread = 0
  /\ scan = version_locals

\* the longest manifest read, in lines
MaxLines == 7

\* the locators from_file_with_next_version is called with
Locators == {None, Some(""), Some("directory.txt")}

\* a record of the body, as the format defines it
IsBodyRecord(l) ==
  \/ match_INSTALL_PATH_PREFIX(l).ok
  \/ match_RAWFILE(l).ok
  \/ match_ZIP(l).ok
  \/ match_ZIPFILE(l).ok
  \/ match_FILE_HISTORY(l).ok

\* a ZIP record, as the format defines it
IsZipRecord(l) == match_ZIP(l).ok

\* a RAWFILE, ZIP or ZIPFILE record, as the format defines it
IsFileRecord(l) == match_RAWFILE(l).ok \/ match_ZIP(l).ok \/ match_ZIPFILE(l).ok

\* the absolute path and the hash of a ZIP record read under a prefix
ZipRecordPath(z) == PathDiv(z.prefix, unescape_spaces(match_ZIP(z.line).groups[3]))

ZipRecordHash(z) == match_ZIP(z.line).groups[2]

\* the absolute path and the hash of a RAWFILE or ZIPFILE record read under a prefix
FileRecordPath(m, prefix) == unescape_spaces(os_path_join(prefix, m.groups[8]))

FileRecordHash(m) == m.groups[7]

ManifestInit ==
  /\ pc = "call"
  /\ source \in Locators
  /\ nread = 0
  /\ line = ""
  /\ parse = from_file_locals
  /\ out = <<>>
  /\ header_seen = FALSE
  /\ lead_record = FALSE
  /\ ref = from_file_locals
  /\ last_zip = None
  /\ zipfile_log = {}
  /\ first_version = None
  /\ first_prefix = None
  /\ file_records = {}
  /\ VersionIdle
  /\ ListIdle
  /\ RetryIdle
  /\ FlushIdle
  /\ bpc = "idle"
  /\ block = <<>>
  /\ text = ""
  /\ parsed = <<>>

\* from_file returns None for a locator that is not given
ReturnNone ==
  /\ pc = "call"
  /\ ~Given(source)
  /\ pc' = "returned"
  /\ out' = <<None, next_version(None)>>
  /\ UNCHANGED <<source, nread, line, parse, header_seen, lead_record, ref, last_zip, zipfile_log, first_version, first_prefix, file_records, block_vars, version_vars, list_vars, retry_vars, flush_vars>>

\* read_from_web_or_disk(...).splitlines(): the loop starts
Open ==
  /\ pc = "call"
  /\ Given(source)
  /\ pc' = "reading"
  /\ UNCHANGED <<source, nread, line, parse, out, header_seen, lead_record, ref, last_zip, zipfile_log, first_version, first_prefix, file_records, block_vars, version_vars, list_vars, retry_vars, flush_vars>>

\* one iteration of the loop, on the next line of the manifest
ReadLine ==
  /\ pc = "reading"
  /\ nread < MaxLines
  /\ \E l \in ManifestLines :
       /\ line' = l
       /\ parse' = from_file_line(parse, l)
       /\ header_seen' = (header_seen \/ match_MANIFEST_VERSION(l).ok)
       /\ lead_record' = (lead_record \/ (~header_seen' /\ IsBodyRecord(l)))
       /\ ref' = IF header_seen' THEN from_file_line(ref, l) ELSE ref
       /\ last_zip' = IF header_seen /\ IsZipRecord(l)
                      THEN Some([line |-> l, prefix |-> parse.install_path_prefix])
                      ELSE last_zip
       /\ zipfile_log' = IF header_seen /\ match_ZIPFILE(l).ok /\ last_zip # None
                         THEN zipfile_log \cup
                              {[path     |-> FileRecordPath(match_ZIPFILE(l), parse.install_path_prefix),
                                hash     |-> FileRecordHash(match_ZIPFILE(l)),
                                zip      |-> ZipRecordPath(last_zip[1]),
                                zip_hash |-> ZipRecordHash(last_zip[1])]}
                         ELSE zipfile_log
       /\ first_version' = IF first_version = None /\ match_MANIFEST_VERSION(l).ok
                           THEN Some(DigitsToNat(match_MANIFEST_VERSION(l).groups[1], 0))
                           ELSE first_version
       /\ first_prefix' = IF header_seen /\ first_prefix = None /\ match_INSTALL_PATH_PREFIX(l).ok
                          THEN Some(unescape_spaces(match_INSTALL_PATH_PREFIX(l).groups[1]))
                          ELSE first_prefix
       /\ file_records' = IF header_seen /\ IsFileRecord(l) /\ parse'.raised = ""
                          THEN file_records \cup {l}
                          ELSE file_records
  /\ nread' = nread + 1
  /\ pc' = IF parse'.raised # "" THEN "raised" ELSE "reading"
  /\ UNCHANGED <<source, out, block_vars, version_vars, list_vars, retry_vars, flush_vars>>

\* the lines are exhausted: from_file returns the manifest and
\* from_file_with_next_version adds the next version
Return ==
  /\ pc = "reading"
  /\ pc' = "returned"
  /\ out' = <<Some(ComponentManifest(parse)), next_version(Some(ComponentManifest(parse)))>>
  /\ UNCHANGED <<source, nread, line, parse, header_seen, lead_record, ref, last_zip, zipfile_log, first_version, first_prefix, file_records, block_vars, version_vars, list_vars, retry_vars, flush_vars>>

ManifestNext == ReturnNone \/ Open \/ ReadLine \/ Return

SpecManifest == ManifestInit /\ [][ManifestNext]_vars

\* ------------------------------------------------------------------------
\* The round trip of a ComponentBlock through its text
\* ------------------------------------------------------------------------

ComponentNames == {"scenery", "a"}

PackagePaths == {"/p"}

ManifestVersionValues == {1, 12}

SimVersionValues == {-1, 10, 1100}

\* the well-formed blocks
Blocks ==
  [component_name    : ComponentNames,
   cdn_subdomain     : CdnServer,
   package_path      : PackagePaths,
   manifest_versions : ManifestVersionValues \X ManifestVersionValues,
   require_auth      : BOOLEAN,
   sim_version_low   : SimVersionValues,
   sim_version_high  : SimVersionValues]

BlockInit ==
  /\ bpc = "built"
  /\ block \in Blocks
  /\ text = ""
  /\ parsed = <<>>
  /\ pc = "idle"
  /\ source = None
  /\ nread = 0
  /\ line = ""
  /\ parse = from_file_locals
  /\ out = <<>>
  /\ header_seen = FALSE
  /\ lead_record = FALSE
  /\ ref = from_file_locals
  /\ last_zip = None
  /\ zipfile_log = {}
  /\ first_version = None
  /\ first_prefix = None
  /\ file_records = {}
  /\ VersionIdle
  /\ ListIdle
  /\ RetryIdle
  /\ FlushIdle

\* str(block)
Serialize ==
  /\ bpc = "built"
  /\ text' = ComponentBlock_str(block)
  /\ bpc' = "serialized"
  /\ UNCHANGED <<block, parsed, manifest_vars, version_vars, list_vars, retry_vars, flush_vars>>

\* ComponentBlock.from_str(text)
Parse ==
  /\ bpc = "serialized"
  /\ parsed' = from_str(text)
  /\ bpc' = "parsed"
  /\ UNCHANGED <<block, text, manifest_vars, version_vars, list_vars, retry_vars, flush_vars>>

BlockNext == Serialize \/ Parse

SpecBlock == BlockInit /\ [][BlockNext]_vars

\* ------------------------------------------------------------------------
\* ComponentBlock.from_str on the text of a block
\* ------------------------------------------------------------------------

RECURSIVE JoinLines(_)
\* the text whose lines are q, every line ended by a newline
JoinLines(q) == IF q = <<>> THEN "" ELSE q[1] \o "\n" \o JoinLines(Tail(q))

\* what the six lines of a block text are drawn from
NameLines ==
  {"COMPONENT com.laminarresearch.xplane_10.scenery",
   "com.laminarresearch.xplane_10.scenery",
   "COMPONENT scenery"}

ServerLines == {"SERVER_SECURE", "SERVER_UNSECURE"}

PathLines == {"/p", "p"}

VersionsLines == {"MANIFEST_VERSIONS 1 12", "1 12", "MANIFEST_VERSIONS 1 x"}

AuthLines == {"REQUIRE_AUTH 0", "REQUIRE_AUTH 1", "0"}

SimLines == {"SIM_VERSIONS 10 20", "SIM_VERSIONS 10-20", "10 20"}

\* texts of six lines, of five and of seven, with the blank line __str__ ends with
BlockTexts ==
  LET six == NameLines \X ServerLines \X PathLines \X VersionsLines \X AuthLines \X SimLines
  IN  {JoinLines(q) \o "\n" : q \in six}
      \cup {JoinLines(SubSeq(q, 1, 5)) \o "\n" : q \in six}
      \cup {JoinLines(q \o <<"EXTRA">>) \o "\n" : q \in six}

TextInit ==
  /\ bpc = "serialized"
  /\ block = <<>>
  /\ text \in BlockTexts
  /\ parsed = <<>>
  /\ ManifestIdle
  /\ VersionIdle
  /\ ListIdle
  /\ RetryIdle
  /\ FlushIdle

TextNext == Parse

SpecText == TextInit /\ [][TextNext]_vars

\* ------------------------------------------------------------------------
\* component_list_version on a component list
\* ------------------------------------------------------------------------

\* the longest component list scanned, in lines
MaxDocLines == 3

\* the lines the component lists are made of
DocLines == {"COMPONENTS", "COMPONENTS ", "5", " 12 ", "x", "COMPONENT a"}

VersionDocs ==
  {JoinLines(q) : q \in UNION {[1..n -> DocLines] : n \in 0..MaxDocLines}}

VersionInit ==
  /\ vpc = "scanning"
  /\ listing \in VersionDocs
  /\ vread = 0
  /\ scan = version_locals
  /\ ManifestIdle
  /\ BlockIdle
  /\ ListIdle
  /\ RetryIdle
  /\ FlushIdle

\* one iteration of the loop, on the next line of the text
ScanLine ==
  /\ vpc = "scanning"
  /\ vread < Len(splitlines(listing))
  /\ scan' = scan_line(scan, splitlines(listing)[vread + 1])
  /\ vread' = vread + 1
  /\ vpc' = IF scan'.raised # "" THEN "raised"
            ELSE IF scan'.returned # None THEN "returned"
            ELSE "scanning"
  /\ UNCHANGED <<listing, manifest_vars, block_vars, list_vars, retry_vars, flush_vars>>

\* the lines are exhausted: raise RuntimeError
ScanEnd ==
  /\ vpc = "scanning"
  /\ vread = Len(splitlines(listing))
  /\ scan' = Raise(scan, "RuntimeError")
  /\ vpc' = "raised"
  /\ UNCHANGED <<listing, vread, manifest_vars, block_vars, list_vars, retry_vars, flush_vars>>

VersionNext == ScanLine \/ ScanEnd

SpecVersion == VersionInit /\ [][VersionNext]_vars

\* ------------------------------------------------------------------------
\* parse_component_list and component_versions on a component list
\* ------------------------------------------------------------------------

\* the most blocks a component list has
MaxBlocks == 2

\* the text before the first block
ListHeaders == {"", "COMPONENTS\n5\n"}

\* the texts of the blocks: three that from_str reads, two of them of one
\* name, and one as __str__ writes it
ListBlockTexts ==
  {"COMPONENT com.laminarresearch.xplane_10.scenery\nSERVER_SECURE\n/p\nMANIFEST_VERSIONS 1 12\nREQUIRE_AUTH 1\nSIM_VERSIONS 10 20\n\n",
   "COMPONENT com.laminarresearch.xplane_10.scenery\nSERVER_UNSECURE\n/q\nMANIFEST_VERSIONS 2 13\nREQUIRE_AUTH 1\nSIM_VERSIONS 10 20\n\n",
   "COMPONENT com.laminarresearch.xplane_10.a\nSERVER_SECURE\n/p\nMANIFEST_VERSIONS 1 12\nREQUIRE_AUTH 1\nSIM_VERSIONS 10 20\n\n",
   ComponentBlock_str([component_name |-> "a", cdn_subdomain |-> "MobileSecure",
                       package_path |-> "/p", manifest_versions |-> <<1, 12>>,
                       require_auth |-> TRUE, sim_version_low |-> 10,
                       sim_version_high |-> 20])}

\* the text from the end of the last block on
ListTails == {"", "ENDOFLIST\n", "ENDOFLIST\nCOMPONENT com.laminarresearch.xplane_10.late\n"}

RECURSIVE Concat(_)
Concat(texts) == IF texts = <<>> THEN "" ELSE texts[1] \o Concat(Tail(texts))

ListInit ==
  /\ lpc = "call"
  /\ made_of \in [header : ListHeaders,
                   blocks : UNION {[1..n -> ListBlockTexts] : n \in 0..MaxBlocks},
                   tail   : ListTails]
  /\ document = made_of.header \o Concat(made_of.blocks) \o made_of.tail
  /\ reachable \in BOOLEAN
  /\ component_list = ""
  /\ components = <<>>
  /\ versions = <<>>
  /\ ManifestIdle
  /\ BlockIdle
  /\ VersionIdle
  /\ RetryIdle
  /\ FlushIdle

\* read_from_web_or_disk(path_to_component_list_txt) returns the text
ReadWeb ==
  /\ lpc = "call"
  /\ reachable
  /\ component_list' = document
  /\ lpc' = "read"
  /\ UNCHANGED <<document, made_of, reachable, components, versions, manifest_vars, block_vars, version_vars, retry_vars, flush_vars>>

\* it raises URLError: the local copy is read
ReadFallback ==
  /\ lpc = "call"
  /\ ~reachable
  /\ component_list' = document
  /\ lpc' = "read"
  /\ UNCHANGED <<document, made_of, reachable, components, versions, manifest_vars, block_vars, version_vars, retry_vars, flush_vars>>

\* the rest of parse_component_list
ParseList ==
  /\ lpc = "read"
  /\ components' = parse_component_list(component_list)
  /\ lpc' = IF components'.raised # "" THEN "raised" ELSE "parsed"
  /\ UNCHANGED <<document, made_of, reachable, component_list, versions, manifest_vars, block_vars, version_vars, retry_vars, flush_vars>>

\* component_versions of the blocks returned
Versions ==
  /\ lpc = "parsed"
  /\ versions' = component_versions(components.blocks)
  /\ lpc' = "mapped"
  /\ UNCHANGED <<document, made_of, reachable, component_list, components, manifest_vars, block_vars, version_vars, retry_vars, flush_vars>>

ListNext == ReadWeb \/ ReadFallback \/ ParseList \/ Versions

SpecList == ListInit /\ [][ListNext]_vars

\* ------------------------------------------------------------------------
\* retry on an action that returns or raises
\* ------------------------------------------------------------------------

\* the largest max_tries retry is called with
MaxTries == 4

\* what action returns and what it raises
ActionValues == {"r1", "r2"}

ActionErrors == {"IOError", "KeyError"}

RetryInit ==
  /\ rpc = "running"
  /\ max_tries \in 0..MaxTries
  /\ tries = retry_locals
  /\ invoked = <<>>
  /\ ManifestIdle
  /\ BlockIdle
  /\ VersionIdle
  /\ ListIdle
  /\ FlushIdle

\* retry invokes action, with the outcome given
Invoke(outcome) ==
  /\ rpc = "running"
  /\ tries' = retry_call(tries, max_tries, outcome)
  /\ invoked' = Append(invoked, outcome)
  /\ rpc' = IF tries'.done = "" THEN "running" ELSE tries'.done
  /\ UNCHANGED <<max_tries, manifest_vars, block_vars, version_vars, list_vars, flush_vars>>

\* action returns a value
InvokeReturns == \E v \in ActionValues : Invoke([kind |-> "return", value |-> v])

\* action raises
InvokeRaises == \E e \in ActionErrors : Invoke([kind |-> "raise", value |-> e])

RetryNext == InvokeReturns \/ InvokeRaises

SpecRetry == RetryInit /\ [][RetryNext]_vars

\* ------------------------------------------------------------------------
\* flush_cdn_cache against a CDN that answers or fails
\* ------------------------------------------------------------------------

\* the longest collection of paths flush_cdn_cache is called with
MaxPaths == 2

\* the paths: the default '/' and one that is not absolute
PathNames == {"/", "rel"}

PathLists == UNION {[1..n -> PathNames] : n \in 0..MaxPaths}

PathArgs ==
  {PathArg("str", <<p>>) : p \in PathNames} \cup {PathArg("list", l) : l \in PathLists}

\* the progress purge_status_ratio returns, in thousandths
Progress == {0, 500, 989, 990, 1000}

FlushInit ==
  /\ fpc = "called"
  /\ cdn_token \in {None, Some("HIGHWINDS_TOKEN")}
  /\ mobile_abs_paths \in PathArgs
  /\ await_confirmation \in BOOLEAN
  /\ waited = 0
  /\ ratio_complete = 0
  /\ polls = 0
  /\ error = ""
  /\ ManifestIdle
  /\ BlockIdle
  /\ VersionIdle
  /\ ListIdle
  /\ RetryIdle

\* the call up to the loop: create_token when there is no token (token is what
\* it returns, None when it raises), the list of paths, the assertion, and
\* purge (job is the id it returns, None when it raises)
Purge(token, job) ==
  /\ fpc = "called"
  /\ IF cdn_token = None /\ token = None
     THEN /\ fpc' = "raised"
          /\ error' = "RuntimeError"
          /\ UNCHANGED <<cdn_token, mobile_abs_paths>>
     ELSE /\ cdn_token' = IF cdn_token = None THEN token ELSE cdn_token
          /\ mobile_abs_paths' = as_path_list(mobile_abs_paths)
          /\ IF ~all_absolute(mobile_abs_paths')
             THEN fpc' = "raised" /\ error' = "AssertionError"
             ELSE IF job = None
             THEN fpc' = "raised" /\ error' = "RuntimeError"
             ELSE fpc' = "polling" /\ error' = ""
  /\ waited' = 0
  /\ ratio_complete' = 0
  /\ UNCHANGED <<await_confirmation, polls, manifest_vars, block_vars, version_vars, list_vars, retry_vars>>

Begin == \E token \in {None, Some("temporary")}, job \in {None, Some("job")} : Purge(token, job)

\* one iteration of the loop in which purge_status_ratio returns progress
Poll(progress) ==
  /\ fpc = "polling"
  /\ await_confirmation /\ ratio_complete < RatioComplete
  /\ ratio_complete' = progress
  /\ waited' = waited + 1
  /\ polls' = polls + 1
  /\ IF timed_out(waited', mobile_abs_paths)
     THEN fpc' = "raised" /\ error' = "TimeoutError"
     ELSE fpc' = "polling" /\ error' = error
  /\ UNCHANGED <<cdn_token, mobile_abs_paths, await_confirmation, manifest_vars, block_vars, version_vars, list_vars, retry_vars>>

PollAnswers == \E progress \in Progress : Poll(progress)

\* an iteration in which purge_status_ratio raises: no 'progress' in the answer
PollFails ==
  /\ fpc = "polling"
  /\ await_confirmation /\ ratio_complete < RatioComplete
  /\ polls' = polls + 1
  /\ fpc' = "raised"
  /\ error' = "RuntimeError"
  /\ UNCHANGED <<cdn_token, mobile_abs_paths, await_confirmation, waited, ratio_complete, manifest_vars, block_vars, version_vars, list_vars, retry_vars>>

\* the loop ends and the call returns
Finish ==
  /\ fpc = "polling"
  /\ ~(await_confirmation /\ ratio_complete < RatioComplete)
  /\ fpc' = "returned"
  /\ UNCHANGED <<cdn_token, mobile_abs_paths, await_confirmation, waited, ratio_complete, polls, error, manifest_vars, block_vars, version_vars, list_vars, retry_vars>>

FlushNext == Begin \/ PollAnswers \/ PollFails \/ Finish

SpecFlush == FlushInit /\ [][FlushNext]_vars

\* ------------------------------------------------------------------------
\* The properties
\* ------------------------------------------------------------------------

\* C1: ComponentBlock.from_str(str(b)) succeeds and returns a block equal to
\* b in every field, for every well-formed block b.
C1_RoundTrip ==
  bpc = "parsed" => parsed.raised = "" /\ parsed.block = block

\* -- what the properties of the manifest parse speak of --

\* the step is an iteration of the loop on line', the header read before it
BodyStep == nread' = nread + 1 /\ header_seen

\* the entries of a list that are loose, and those in a ZIP
LooseIn(at_path) == {k \in 1..Len(at_path) : at_path[k].in_zip = None}

ZippedIn(at_path) == {k \in 1..Len(at_path) : at_path[k].in_zip # None}

\* a manifest was returned
Returned == pc = "returned" /\ out[1] # None

\* the entries a RAWFILE or ZIPFILE line m names had before the step
EntriesBefore(m) ==
  EntriesAt(parse.entries, FileRecordPath(m, parse.install_path_prefix))

\* the entries a RAWFILE or ZIPFILE line m names have after the step
EntriesAfter(m) ==
  EntriesAt(parse'.entries, FileRecordPath(m, parse.install_path_prefix))

\* C2 as claimed: in every manifest from_file returns, no path has both a
\* loose entry and an entry in a ZIP.
C2_LooseXorZipped ==
  Returned =>
    \A p \in DOMAIN out[1][1].entries :
      LooseIn(out[1][1].entries[p]) = {} \/ ZippedIn(out[1][1].entries[p]) = {}

\* C2 as amended: entries of the other kind never make a line fail.  A
\* RAWFILE line whose path has no loose entry is appended as a loose entry,
\* whatever entries in ZIPs the path has; a ZIPFILE line read after a ZIP line
\* whose path has no entry in that ZIP is appended, whatever loose entry the
\* path has.
C2_LooseAndZipped ==
  [][BodyStep =>
       /\ (match_RAWFILE(line').ok /\ LooseIn(EntriesBefore(match_RAWFILE(line'))) = {})
            => /\ parse'.raised = ""
               /\ EntriesAfter(match_RAWFILE(line')) =
                    Append(EntriesBefore(match_RAWFILE(line')),
                           ManifestEntry(FileRecordHash(match_RAWFILE(line')), None))
       /\ (/\ match_ZIPFILE(line').ok
           /\ last_zip # None
           /\ \A k \in ZippedIn(EntriesBefore(match_ZIPFILE(line'))) :
                EntriesBefore(match_ZIPFILE(line'))[k].in_zip # Some(ZipRecordPath(last_zip[1])))
            => /\ parse'.raised = ""
               /\ EntriesAfter(match_ZIPFILE(line')) =
                    Append(EntriesBefore(match_ZIPFILE(line')),
                           ManifestEntry(FileRecordHash(match_ZIPFILE(line')),
                                         Some(ZipRecordPath(last_zip[1]))))
    ]_vars

\* C2 witness: a returned manifest in which a path has an entry in a ZIP
\* followed by a loose entry
C2_Witness ==
  /\ Returned
  /\ \E p \in DOMAIN out[1][1].entries :
       /\ Len(out[1][1].entries[p]) = 2
       /\ out[1][1].entries[p][1].in_zip # None
       /\ out[1][1].entries[p][2].in_zip = None

\* C3: a path never has two loose entries, during the parse and in the
\* manifest returned, and a RAWFILE line whose path has a loose entry ends the
\* parse with an exception.
C3_SingleLoose ==
  [][/\ \A p \in DOMAIN parse'.entries : Cardinality(LooseIn(parse'.entries[p])) <= 1
     /\ (pc' = "returned" /\ out'[1] # None)
          => \A p \in DOMAIN out'[1][1].entries :
               Cardinality(LooseIn(out'[1][1].entries[p])) <= 1
     /\ (BodyStep /\ match_RAWFILE(line').ok
           /\ LooseIn(EntriesBefore(match_RAWFILE(line'))) # {})
          => parse'.raised # "" /\ parse'.entries = parse.entries
    ]_vars

\* C3 witness: a second RAWFILE line for a path has ended the parse
C3_Witness ==
  /\ pc = "raised"
  /\ header_seen
  /\ match_RAWFILE(line).ok
  /\ LooseIn(EntriesAt(parse.entries,
                       FileRecordPath(match_RAWFILE(line), parse.install_path_prefix))) # {}

\* the entries of a list that are in a given ZIP
InZip(at_path, zip) == {k \in 1..Len(at_path) : at_path[k].in_zip = Some(zip)}

\* no two entries of a path are in the same ZIP
NoZipTwice(entries) ==
  \A p \in DOMAIN entries :
    \A k \in ZippedIn(entries[p]) :
      Cardinality(InZip(entries[p], entries[p][k].in_zip[1])) = 1

\* C4: no two entries of a path are in the same ZIP, during the parse and in
\* the manifest returned, and a ZIPFILE line whose path has an entry in the
\* ZIP of the nearest ZIP line before it ends the parse with an exception.
C4_UniqueInZip ==
  [][/\ NoZipTwice(parse'.entries)
     /\ (pc' = "returned" /\ out'[1] # None) => NoZipTwice(out'[1][1].entries)
     /\ (BodyStep /\ match_ZIPFILE(line').ok /\ last_zip # None
           /\ InZip(EntriesBefore(match_ZIPFILE(line')), ZipRecordPath(last_zip[1])) # {})
          => parse'.raised # "" /\ parse'.entries = parse.entries
    ]_vars

\* C4 witness: a ZIPFILE line has ended the parse because its path has an
\* entry in the current ZIP, which an earlier ZIP line had established and a
\* later one established again after another ZIP had taken an entry of the path
C4_Witness ==
  /\ pc = "raised"
  /\ match_ZIPFILE(line).ok
  /\ last_zip # None
  /\ LET at_path == EntriesAt(parse.entries,
                              FileRecordPath(match_ZIPFILE(line), parse.install_path_prefix))
     IN /\ Len(at_path) = 2
        /\ at_path[1].in_zip = Some(ZipRecordPath(last_zip[1]))
        /\ at_path[2].in_zip \notin {None, at_path[1].in_zip}

\* C5: a version recorded in history is never removed or overwritten, and a
\* FILE_HISTORY line naming a path that history holds ends the parse with an
\* exception.
C5_HistoryOnce ==
  [][/\ \A p \in DOMAIN parse.history :
          p \in DOMAIN parse'.history /\ parse'.history[p] = parse.history[p]
     /\ (BodyStep /\ match_FILE_HISTORY(line').ok
           /\ match_FILE_HISTORY(line').groups[2] \in DOMAIN parse.history)
          => parse'.raised # ""
    ]_vars

\* C5 witness: a FILE_HISTORY line with another version for a recorded path
\* has ended the parse
C5_Witness ==
  /\ pc = "raised"
  /\ match_FILE_HISTORY(line).ok
  /\ match_FILE_HISTORY(line).groups[2] \in DOMAIN parse.history
  /\ parse.history[match_FILE_HISTORY(line).groups[2]]
       # DigitsToNat(match_FILE_HISTORY(line).groups[1], 0)

\* the entries in ZIPs that a step adds to a path
AddedZipped(p) ==
  {k \in ZippedIn(parse'.entries[p]) : k > Len(EntriesAt(parse.entries, p))}

\* C6: a ZIPFILE line read after the header with no ZIP line between the
\* header and it ends the parse with an exception, and no step adds an entry
\* in a ZIP while most_recent_zip is None.
C6_ZipContext ==
  [][/\ (BodyStep /\ match_ZIPFILE(line').ok /\ last_zip = None)
          => parse'.raised # "" /\ parse'.entries = parse.entries
     /\ (\E p \in DOMAIN parse'.entries : AddedZipped(p) # {})
          => parse.most_recent_zip # None
    ]_vars

\* C6 witness: a ZIPFILE line with no ZIP line before it has ended the parse
C6_Witness ==
  /\ pc = "raised"
  /\ header_seen
  /\ match_ZIPFILE(line).ok
  /\ last_zip = None

\* the entry that a ZIPFILE record of the log stands for is among entries
Logged(r, entries) ==
  \E k \in 1..Len(EntriesAt(entries, r.path)) :
    entries[r.path][k] = ManifestEntry(r.hash, Some(r.zip))

\* C7 as claimed: in a returned manifest, every ZIPFILE line has its entry,
\* with the hash of the line, in the ZIP of the nearest ZIP line before it,
\* and zips maps that ZIP to the second field of that ZIP line.
C7_AttributionReturned ==
  Returned =>
    \A r \in zipfile_log :
      /\ Logged(r, out[1][1].entries)
      /\ r.zip \in DOMAIN out[1][1].zips
      /\ out[1][1].zips[r.zip] = r.zip_hash

\* C7 as amended: a ZIPFILE line that does not end the parse appends the
\* entry with its hash in the ZIP of the nearest ZIP line before it, and at
\* that step zips maps that ZIP to the second field of that ZIP line; the
\* entry stays, and the hash of a ZIP changes only when a later ZIP line names
\* the same path, to the second field of that line.
C7_Attribution ==
  [][/\ (BodyStep /\ match_ZIPFILE(line').ok /\ parse'.raised = "")
          => /\ last_zip # None
             /\ EntriesAfter(match_ZIPFILE(line')) =
                  Append(EntriesBefore(match_ZIPFILE(line')),
                         ManifestEntry(FileRecordHash(match_ZIPFILE(line')),
                                       Some(ZipRecordPath(last_zip[1]))))
             /\ ZipRecordPath(last_zip[1]) \in DOMAIN parse'.zips
             /\ parse'.zips[ZipRecordPath(last_zip[1])] = ZipRecordHash(last_zip[1])
     /\ parse'.raised = "" => \A r \in zipfile_log : Logged(r, parse'.entries)
     /\ \A z \in DOMAIN parse.zips :
          /\ z \in DOMAIN parse'.zips
          /\ parse'.zips[z] # parse.zips[z]
               => /\ BodyStep /\ IsZipRecord(line')
                  /\ z = ZipRecordPath([line |-> line', prefix |-> parse.install_path_prefix])
                  /\ parse'.zips[z] = match_ZIP(line').groups[2]
     /\ (pc' = "returned" /\ out'[1] # None)
          => out'[1][1].entries = parse.entries /\ out'[1][1].zips = parse.zips
    ]_vars

\* C7 witness: a ZIPFILE line was appended after a ZIP line, a ZIP line of
\* another path and a line of another kind had been read before that ZIP line
C7_Witness ==
  /\ pc = "reading"
  /\ match_ZIPFILE(line).ok
  /\ last_zip # None
  /\ Cardinality(DOMAIN parse.zips) >= 2
  /\ DOMAIN parse.history # {}
  /\ \E r \in zipfile_log : r.zip = ZipRecordPath(last_zip[1]) /\ Logged(r, parse.entries)

\* C8 as claimed: after the header, every line that is no well-formed record
\* ends the parse with an exception.
C8_StrictBody ==
  [][(BodyStep /\ ~IsBodyRecord(line')) => parse'.raised # ""]_vars

\* C8 as amended: after the header, a line that is no well-formed record ends
\* the parse with the RuntimeError when it starts with ZIP or RAWFILE, and is
\* skipped, leaving every local of the parse as it was, when it does not.
C8_StrictFileLines ==
  [][(BodyStep /\ ~IsBodyRecord(line'))
       => IF startswith(line', "ZIP") \/ startswith(line', "RAWFILE")
          THEN parse'.raised = "RuntimeError"
          ELSE parse' = parse /\ pc' = "reading"
    ]_vars

\* C8 witness: a FILE_HISTORY line that its pattern does not match was
\* skipped after the header
C8_Witness ==
  /\ pc = "reading"
  /\ header_seen
  /\ startswith(line, "FILE_HISTORY")
  /\ ~IsBodyRecord(line)
  /\ parse.history = <<>>

\* C9: until a MANIFEST_VERSION record is read the locals of the parse are
\* those of its start and no exception is raised; at every point the locals
\* are those of the parse of the lines from the first MANIFEST_VERSION record
\* on, and so is the manifest returned.
C9_HeaderFirst ==
  /\ ~header_seen => parse = from_file_locals /\ pc # "raised"
  /\ parse = ref
  /\ Returned => out = <<Some(ComponentManifest(ref)), ref.prev_manifest_version + 1>>

\* C9 witness: a manifest with entries was returned for a text that has
\* records of the body before its header
C9_Witness ==
  /\ Returned
  /\ lead_record
  /\ header_seen
  /\ DOMAIN out[1][1].entries # {}

\* C10: from_file_with_next_version returns (None, 1) for a locator that is
\* None or empty, and otherwise the manifest of the locals of the parse with
\* its version plus one.
C10_NextVersion ==
  pc = "returned" =>
    IF source \in {None, Some("")} THEN out = <<None, 1>>
    ELSE /\ out[1] = Some(ComponentManifest(parse))
         /\ out[1][1].version = parse.prev_manifest_version
         /\ out[2] = out[1][1].version + 1

\* C10 witness: a manifest of version 7 was returned with next version 8
C10_Witness ==
  /\ pc = "returned"
  /\ source = Some("directory.txt")
  /\ out[1] # None
  /\ out[1][1].version = 7
  /\ out[2] = 8

\* C11: the version of the parse, and of the manifest returned, is the
\* integer of the first MANIFEST_VERSION line read; a MANIFEST_VERSION line
\* read after it leaves every local of the parse as it was; the next version
\* returned is that integer plus one.
C11_FirstVersionWins ==
  [][/\ first_version' # None => parse'.prev_manifest_version = first_version'[1]
     /\ (BodyStep /\ match_MANIFEST_VERSION(line').ok) => parse' = parse
     /\ (pc' = "returned" /\ out'[1] # None /\ first_version' # None)
          => out'[1][1].version = first_version'[1] /\ out'[2] = first_version'[1] + 1
    ]_vars

\* C11 witness: MANIFEST_VERSION 7 was read first and MANIFEST_VERSION 9 last,
\* and the manifest returned has version 7 and next version 8
C11_Witness ==
  /\ Returned
  /\ first_version = Some(7)
  /\ line = "MANIFEST_VERSION 9"
  /\ out[1][1].version = 7
  /\ out[2] = 8

\* C12: once an INSTALL_PATH_PREFIX line has been read after the header, the
\* prefix of the parse, and of the manifest returned, is the decoded path of
\* the first such line, whatever that path is and whatever lines follow.
C12_PrefixOnce ==
  first_prefix # None =>
    /\ parse.install_path_prefix = first_prefix[1]
    /\ Returned => out[1][1].install_path_prefix = Path(first_prefix[1])

\* -- the file records of a manifest, read under one prefix --

\* the entries key of a RAWFILE or ZIPFILE record l under a prefix
FileKeyUnder(l, prefix) ==
  FileRecordPath(IF match_RAWFILE(l).ok THEN match_RAWFILE(l) ELSE match_ZIPFILE(l), prefix)

\* the zips key of a ZIP record l under a prefix
ZipKeyUnder(l, prefix) == ZipRecordPath([line |-> l, prefix |-> prefix])

\* C13: in every manifest returned, the keys of entries are the paths of the
\* RAWFILE and ZIPFILE records read, and the keys of zip_hashes those of the
\* ZIP records read, each joined to the install_path_prefix of the manifest
\* (the prefix as the parse holds it, before Path() normalises it).
C13_PrefixEverywhere ==
  Returned =>
    /\ DOMAIN out[1][1].entries =
         {FileKeyUnder(l, parse.install_path_prefix) : l \in {r \in file_records : ~IsZipRecord(r)}}
    /\ DOMAIN out[1][1].zips =
         {ZipKeyUnder(l, parse.install_path_prefix) : l \in {r \in file_records : IsZipRecord(r)}}

\* C14: in every manifest returned, no path that has a loose entry is a key
\* of zip_hashes.
C14_ZipsNotLoose ==
  Returned =>
    \A p \in DOMAIN out[1][1].entries :
      LooseIn(out[1][1].entries[p]) # {} => Path(p) \notin DOMAIN out[1][1].zips

\* C19: the next version returned is never below 1, and a manifest returned
\* never has the version -1 the parse starts with.
C19_NextVersionPositive ==
  pc = "returned" =>
    /\ out[2] >= 1
    /\ out[1] # None => out[1][1].version # -1

\* the in_zip of every entry is a key of zips
ContainersIn(entries, zips) ==
  \A p \in DOMAIN entries :
    \A k \in ZippedIn(entries[p]) : entries[p][k].in_zip[1] \in DOMAIN zips

\* C20: at every point of the parse and in the manifest returned, the in_zip
\* of every entry in a ZIP is a key of zip_hashes; most_recent_zip, once set,
\* stays set and is a key of zip_hashes; no step removes a key of zip_hashes,
\* and a ZIP line whose path is a key already changes the hash and no key.
C20_ContainersKnown ==
  [][/\ ContainersIn(parse'.entries, parse'.zips)
     /\ parse'.most_recent_zip # None => parse'.most_recent_zip[1] \in DOMAIN parse'.zips
     /\ parse.most_recent_zip # None => parse'.most_recent_zip # None
     /\ DOMAIN parse.zips \subseteq DOMAIN parse'.zips
     /\ (BodyStep /\ IsZipRecord(line')
           /\ ZipKeyUnder(line', parse.install_path_prefix) \in DOMAIN parse.zips)
          => /\ DOMAIN parse'.zips = DOMAIN parse.zips
             /\ parse'.zips[ZipKeyUnder(line', parse.install_path_prefix)] = ZipRecordHash([line |-> line'])
     /\ (pc' = "returned" /\ out'[1] # None)
          => ContainersIn(out'[1][1].entries, out'[1][1].zips)
    ]_vars

\* C20 witness: a manifest was returned that has an entry in a ZIP, two keys
\* of zip_hashes, and for the ZIP of that entry the hash of a later ZIP line
\* of the same path
C20_Witness ==
  /\ Returned
  /\ Cardinality(DOMAIN out[1][1].zips) >= 2
  /\ \E r \in zipfile_log :
       /\ Logged(r, out[1][1].entries)
       /\ r.zip \in DOMAIN out[1][1].zips
       /\ out[1][1].zips[r.zip] # r.zip_hash

\* -- what the properties of component_list_version speak of --

\* the lines of the text that are the marker, as the scan reads them
Markers(doc) == {k \in 1..Len(splitlines(doc)) : rstrip(splitlines(doc)[k]) = "COMPONENTS"}

\* the lines of the text that are equal to COMPONENTS
ExactMarkers(doc) == {k \in 1..Len(splitlines(doc)) : splitlines(doc)[k] = "COMPONENTS"}

\* C15 as claimed: component_list_version returns no version for a text that
\* has more than one line equal to COMPONENTS.
C15_NoDuplicateMarker ==
  vpc = "returned" => Cardinality(ExactMarkers(listing)) <= 1

\* C15 as amended: the scan ends at the line after the first marker.  It
\* fails with the assertion when that line is a marker too, returns the
\* integer of that line when it is one, having read no line after it, and
\* fails when that line is no integer or there is no marker or no line after
\* the first marker; markers further down are never read.
C15_AdjacentMarker ==
  vpc \in {"returned", "raised"} =>
    LET lines == splitlines(listing)
        first == Min(Markers(listing))
    IN IF Markers(listing) = {} \/ first = Len(lines)
       THEN scan.raised = "RuntimeError" /\ scan.returned = None
       ELSE /\ vread = first + 1
            /\ IF first + 1 \in Markers(listing)
               THEN scan.raised = "AssertionError" /\ scan.returned = None
               ELSE IF int(lines[first + 1]) = None
                    THEN scan.raised = "ValueError" /\ scan.returned = None
               ELSE scan.raised = "" /\ scan.returned = int(lines[first + 1])

\* C15 witness: a version was returned for a text with two lines equal to
\* COMPONENTS, the second after the version line
C15_Witness ==
  /\ vpc = "returned"
  /\ scan.returned = Some(5)
  /\ Cardinality(ExactMarkers(listing)) = 2

\* -- what the properties of from_str speak of --

\* the lines from_str makes of the text
TextLines == splitlines(strip(text))

Has(s, token) == find(s, token, 1) # 0

\* C17 as claimed: from_str returns no block when the stripped text has not
\* exactly 6 lines, when line 3 does not start with '/', and when COMPONENT
\* is missing from line 1, MANIFEST_VERSIONS from line 4, REQUIRE_AUTH from
\* line 5 or SIM_VERSIONS from line 6.
C17_FixedTokens ==
  bpc = "parsed" =>
    IF Len(TextLines) # 6 THEN parsed.raised # ""
    ELSE (\/ ~startswith(TextLines[3], "/")
          \/ ~Has(TextLines[1], "COMPONENT")
          \/ ~Has(TextLines[4], "MANIFEST_VERSIONS")
          \/ ~Has(TextLines[5], "REQUIRE_AUTH")
          \/ ~Has(TextLines[6], "SIM_VERSIONS"))
         => parsed.raised # ""

\* C17 as amended: from_str returns no block when the stripped text has not
\* exactly 6 lines (AssertionError), when line 3 does not start with '/', and
\* when 'com.laminarresearch.xplane_10.' is missing from line 1,
\* 'MANIFEST_VERSIONS ' from line 4, 'REQUIRE_AUTH' from line 5 or
\* 'SIM_VERSIONS ' from line 6; the word COMPONENT on line 1 is not looked
\* for.
C17_TokensRead ==
  bpc = "parsed" =>
    IF Len(TextLines) # 6 THEN parsed.raised = "AssertionError"
    ELSE (\/ ~startswith(TextLines[3], "/")
          \/ ~Has(TextLines[1], "com.laminarresearch.xplane_10.")
          \/ ~Has(TextLines[4], "MANIFEST_VERSIONS ")
          \/ ~Has(TextLines[5], "REQUIRE_AUTH")
          \/ ~Has(TextLines[6], "SIM_VERSIONS "))
         => parsed.raised # ""

\* C17 witness: from_str failed on a text of six lines whose first line has
\* COMPONENT and not the prefix of the name, and whose other lines are those
\* of a block
C17_Witness ==
  /\ bpc = "parsed"
  /\ TextLines = <<"COMPONENT scenery", "SERVER_SECURE", "/p", "MANIFEST_VERSIONS 1 12",
                   "REQUIRE_AUTH 1", "SIM_VERSIONS 10 20">>
  /\ parsed.raised = "IndexError"

\* -- what the properties of the component list speak of --

\* every block text the document was put together from is one from_str reads
WellFormedBlocks == \A k \in 1..Len(made_of.blocks) : from_str(made_of.blocks[k]).raised = ""

\* C16: for a document of n >= 1 block texts that from_str reads, with any
\* text without the token before them and ENDOFLIST and any text after them,
\* parse_component_list returns the n blocks of these texts in their order.
C16_BlocksInOrder ==
  (lpc \in {"parsed", "raised"} /\ Len(made_of.blocks) >= 1 /\ WellFormedBlocks
     /\ startswith(made_of.tail, "ENDOFLIST"))
    => /\ components.raised = ""
       /\ components.blocks =
            [k \in 1..Len(made_of.blocks) |-> from_str(made_of.blocks[k]).block]

\* C16 witness: two blocks were returned for a document with a header, two
\* block texts and a text with the token after ENDOFLIST
C16_Witness ==
  /\ lpc = "parsed"
  /\ made_of.header # ""
  /\ find(made_of.tail, component_token, 1) # 0
  /\ Len(components.blocks) = 2
  /\ components.blocks[1].package_path = "/q"
  /\ components.blocks[2].package_path = "/p"

\* C18: the keys of component_versions are the names of the components, and
\* the value of a name is the manifest_versions of the last component of that
\* name.
C18_LastWins ==
  lpc = "mapped" =>
    LET blocks == components.blocks
    IN /\ DOMAIN versions = {blocks[k].component_name : k \in 1..Len(blocks)}
       /\ \A k \in 1..Len(blocks) :
            (\A j \in (k + 1)..Len(blocks) : blocks[j].component_name # blocks[k].component_name)
              => versions[blocks[k].component_name] = blocks[k].manifest_versions

\* C18 witness: two components of one name with different manifest_versions
\* were mapped
C18_Witness ==
  /\ lpc = "mapped"
  /\ Len(components.blocks) = 2
  /\ components.blocks[1].component_name = components.blocks[2].component_name
  /\ components.blocks[1].manifest_versions # components.blocks[2].manifest_versions
  /\ versions[components.blocks[1].component_name] = components.blocks[2].manifest_versions

\* C21: a block that from_str returns has require_auth FALSE when line 5 of
\* the text is REQUIRE_AUTH 0 and TRUE when it is REQUIRE_AUTH 1, the values
\* __str__ writes for the two.
C21_AuthValue ==
  (bpc = "parsed" /\ parsed.raised = "") =>
    /\ TextLines[5] = "REQUIRE_AUTH " \o IntToStr(BoolToInt(FALSE)) => parsed.block.require_auth = FALSE
    /\ TextLines[5] = "REQUIRE_AUTH " \o IntToStr(BoolToInt(TRUE)) => parsed.block.require_auth = TRUE

\* C22: retry invokes action max_tries times at most, for max_tries >= 1.
C22_AtMostMaxTries ==
  max_tries >= 1 => Len(invoked) <= max_tries

\* C23: an invocation that does not raise is the last one, retry returns its
\* result, and retry returns only then; when retry raises, every invocation
\* has raised and the exception is that of the last one.
C23_FirstSuccess ==
  /\ \A k \in 1..Len(invoked) :
       invoked[k].kind = "return"
         => k = Len(invoked) /\ rpc = "returned" /\ tries.value = Some(invoked[k].value)
  /\ rpc = "returned" => invoked # <<>> /\ invoked[Len(invoked)].kind = "return"
  /\ rpc = "raised" =>
       /\ invoked # <<>>
       /\ \A k \in 1..Len(invoked) : invoked[k].kind = "raise"
       /\ tries.value = Some(invoked[Len(invoked)].value)

\* C23 witness: retry returned the result of the third invocation, the two
\* before it having raised
C23_Witness ==
  /\ rpc = "returned"
  /\ Len(invoked) = 3
  /\ invoked[1].kind = "raise"
  /\ invoked[2].kind = "raise"
  /\ tries.value = Some("r2")


\* C24: flush_cdn_cache raises TimeoutError only when the progress of the
\* latest poll is below 0.99, so a poll that returns 0.99 or more is never
\* followed by a TimeoutError; and without await_confirmation it never polls
\* and never raises TimeoutError
C24_TimeoutOnlyBelow ==
  /\ error = "TimeoutError" => ratio_complete < RatioComplete
  /\ ~await_confirmation => (polls = 0 /\ error # "TimeoutError")

====
